---- MODULE Spec2Model ----
(***************************************************************************)
(* Model of the arXiv acquisition pipeline of scripts/main.py:             *)
(* one resolver thread (fetch_ids_worker), DOWNLOAD_THREAD_COUNT download  *)
(* workers and REFERENCE_THREAD_COUNT reference workers, connected by two  *)
(* bounded queue.Queue objects, and the coordinator that joins them.       *)
(***************************************************************************)
EXTENDS Integers, Sequences, FiniteSets, TLC

\* ------------------------------------------------------------------ bounds
MaxDownloadThreads == 2
MaxReferenceThreads == 2
MaxPapers == 2
MaxOrdinal == 2

\* ------------------------------------------------------- program constants
StartYear == 2023
StartMonth == 3
QueueFactor == 2

VARIABLES
    DOWNLOAD_THREAD_COUNT,   \* main.py:112
    REFERENCE_THREAD_COUNT,  \* main.py:113
    args,                    \* arguments of fetch_ids_worker (main.py:99-110)
    fetch,                   \* the resolver thread t1 (fetch_ids_worker)
    id_queue,                \* main.py:115
    download_queue,          \* main.py:116
    dw,                      \* download worker threads
    rw,                      \* reference worker threads
    main,                    \* the coordinator (__main__) after line 135
    disk,                    \* files written under base_data_dir
    hist,                    \* history of queue operations (observation only)
    job,                     \* one download worker followed statement by statement
    ref,                     \* one reference worker followed statement by statement
    calc,                    \* one evaluation of get_ID and the key formatters
    probe,                   \* one evaluation of find_first_id / find_last_id
    res,                     \* one call of get_IDs_network / get_IDs_All
    tar                      \* one call of safe_extract_tar

vars == <<DOWNLOAD_THREAD_COUNT, REFERENCE_THREAD_COUNT, args, fetch,
          id_queue, download_queue, dw, rw, main, disk, hist, job,
          ref, calc, probe, res, tar>>

\* the state of the running pipeline
pipeline == <<DOWNLOAD_THREAD_COUNT, REFERENCE_THREAD_COUNT, args, fetch,
              id_queue, download_queue, dw, rw, main, disk, hist>>

\* variables the pipeline actions never touch
detail == <<job, ref, calc, probe, res, tar>>

\* a function that is not being evaluated
Idle == [pc |-> "idle"]

\* ---------------------------------------------------------------- strings
\* A Python str is a sequence of one-character strings.
Digits == <<"0", "1", "2", "3", "4", "5", "6", "7", "8", "9">>

RECURSIVE Decimal(_)
\* str(n) for n >= 0
Decimal(n) == IF n < 10 THEN <<Digits[n + 1]>>
              ELSE Decimal(n \div 10) \o <<Digits[(n % 10) + 1]>>

RECURSIVE Zeros(_)
Zeros(k) == IF k <= 0 THEN <<>> ELSE <<"0">> \o Zeros(k - 1)

\* f"{n:0{width}d}": zero-padded to a MINIMUM width
ZeroPad(n, width) == Zeros(width - Len(Decimal(n))) \o Decimal(n)

\* get_ID with the month formatted in the place of the ordinal
get_ID_NoOrdinal(month, year, number) ==
    ZeroPad(year % 100, 2) \o ZeroPad(month, 2) \o <<".">> \o ZeroPad(month, 5)

\* arXiv_handler.get_ID
get_ID(month, year, number) ==
    ZeroPad(year % 100, 2) \o ZeroPad(month, 2) \o <<".">> \o ZeroPad(number, 5)

\* arXiv_handler.get_IDs_month
get_IDs_month(month, year, start_number, end_number) ==
    [k \in 1..(end_number - start_number + 1) |->
        get_ID(month, year, start_number + k - 1)]

\* downloader.format_yymm_id: base_id.replace('.', '-')
format_yymm_id(base_id) ==
    [k \in 1..Len(base_id) |-> IF base_id[k] = "." THEN "-" ELSE base_id[k]]

\* the termination sentinel put on both queues (Python None)
None == <<"None">>

\* Python slice seq[a:a+n] for a, n >= 0
Slice(seq, a, n) ==
    SubSeq(seq, a + 1, IF a + n < Len(seq) THEN a + n ELSE Len(seq))

\* ----------------------------------------------------------------- queues
id_queue_maxsize == DOWNLOAD_THREAD_COUNT * QueueFactor
download_queue_maxsize == REFERENCE_THREAD_COUNT * QueueFactor

\* a put that never blocks
CanPut_NoBlock(q, maxsize) == TRUE

\* queue.Queue.put blocks while the queue is full (maxsize <= 0: unbounded)
CanPut(q, maxsize) == maxsize <= 0 \/ Len(q) < maxsize
\* queue.Queue.get blocks while the queue is empty
CanGet(q) == Len(q) > 0

DownloadWorkers == 1..DOWNLOAD_THREAD_COUNT
ReferenceWorkers == 1..REFERENCE_THREAD_COUNT

\* locals of a download worker that holds no paper
IdleJob ==
    [pc |-> "get", arxiv_id |-> None, target |-> 0, attempt |-> 0, slept |-> <<>>,
     version_latest |-> 0, list_download |-> <<>>, idx |-> 0, result |-> 0,
     order |-> <<>>, saved |-> <<>>]

\* ------------------------------------------------------------------- Init
InitArgs ==
    {[start_month |-> StartMonth, start_year |-> StartYear, start_ID |-> 1,
      end_month |-> em, end_year |-> StartYear,
      end_ID |-> e, total_paper |-> MaxOrdinal,
      start_index |-> 0, num_papers |-> n] :
        em \in {StartMonth, StartMonth + 1}, e \in 1..MaxOrdinal, n \in 0..MaxPapers}

Init ==
    /\ DOWNLOAD_THREAD_COUNT \in 1..MaxDownloadThreads
    /\ REFERENCE_THREAD_COUNT \in 1..MaxReferenceThreads
    /\ args \in InitArgs
    /\ fetch = [pc |-> "loop", y |-> args.start_year, m |-> args.start_month,
                n_start |-> args.start_ID, ids |-> <<>>, selected_ids |-> <<>>,
                i |-> 0]
    /\ id_queue = <<>>
    /\ download_queue = <<>>
    /\ dw = [w \in DownloadWorkers |-> [pc |-> "get", arxiv_id |-> None]]
    /\ rw = [r \in ReferenceWorkers |-> [pc |-> "get", arxiv_id |-> None]]
    /\ main = [pc |-> "join_t1", j |-> 1]
    /\ disk = {}
    /\ hist = [id_put |-> <<>>, id_got |-> {}, dl_put |-> {}, dl_none |-> 0,
               dl_got |-> {}]
    /\ job = IdleJob
    /\ ref = Idle /\ calc = Idle /\ probe = Idle /\ res = Idle /\ tar = Idle

\* --------------------------------------------- the resolver thread (t1)
\* One iteration of the while-loop of arXiv_handler.get_IDs_network; on the
\* last month the function returns and fetch_ids_worker slices the result.
\* months counted from year 0, to compare (year, month) pairs
MonthIndex(year, month) == year * 12 + month

\* the month loops have no bound of their own; the model follows them for
\* MaxWalk months past the start month
MaxWalk == 14
Walked == MonthIndex(fetch.y, fetch.m) - MonthIndex(args.start_year, args.start_month)

AtEnd == fetch.y = args.end_year /\ fetch.m = args.end_month

n_end == IF AtEnd THEN args.end_ID
         ELSE args.total_paper - args.end_ID + args.start_ID - 1

IdsAfterMonth ==
    IF fetch.n_start <= n_end
    THEN fetch.ids \o get_IDs_month(fetch.m, fetch.y, fetch.n_start, n_end)
    ELSE fetch.ids

\* position of fetch_ids_worker once i items of a for-loop over seq are done
AfterIds(selected) == IF Len(selected) > 0 THEN "put_ids" ELSE "put_none"

get_IDs_network ==
    /\ fetch.pc = "loop"
    /\ Walked < MaxWalk
    /\ IF AtEnd
       THEN LET selected == Slice(IdsAfterMonth, args.start_index, args.num_papers)
            IN  fetch' = [fetch EXCEPT !.ids = IdsAfterMonth,
                                       !.selected_ids = selected,
                                       !.pc = AfterIds(selected), !.i = 0]
       ELSE fetch' = [fetch EXCEPT !.ids = IdsAfterMonth,
                                   !.m = IF fetch.m + 1 > 12 THEN 1 ELSE fetch.m + 1,
                                   !.y = IF fetch.m + 1 > 12 THEN fetch.y + 1 ELSE fetch.y,
                                   !.n_start = 1]
    /\ UNCHANGED <<DOWNLOAD_THREAD_COUNT, REFERENCE_THREAD_COUNT, args, id_queue,
                   download_queue, dw, rw, main, disk, hist, detail>>

\* main.py:18-19  for arxiv_id in selected_ids: id_queue.put(arxiv_id)
FetchPutId ==
    /\ fetch.pc = "put_ids"
    /\ CanPut(id_queue, id_queue_maxsize)
    /\ LET arxiv_id == fetch.selected_ids[fetch.i + 1]
       IN  /\ id_queue' = Append(id_queue, arxiv_id)
           /\ hist' = [hist EXCEPT !.id_put = Append(@, arxiv_id)]
    /\ fetch' = [fetch EXCEPT
                   !.i = IF fetch.i + 1 < Len(fetch.selected_ids) THEN fetch.i + 1 ELSE 0,
                   !.pc = IF fetch.i + 1 < Len(fetch.selected_ids)
                          THEN "put_ids" ELSE "put_none"]
    /\ UNCHANGED <<DOWNLOAD_THREAD_COUNT, REFERENCE_THREAD_COUNT, args,
                   download_queue, dw, rw, main, disk, detail>>

\* one sentinel per reference worker instead
SentinelCount_Reference == REFERENCE_THREAD_COUNT

\* number of sentinels the resolver pushes (main.py:20)
SentinelCount == DOWNLOAD_THREAD_COUNT

\* main.py:20-21  for _ in range(DOWNLOAD_THREAD_COUNT): id_queue.put(None)
FetchPutNone ==
    /\ fetch.pc = "put_none"
    /\ CanPut(id_queue, id_queue_maxsize)
    /\ id_queue' = Append(id_queue, None)
    /\ hist' = [hist EXCEPT !.id_put = Append(@, None)]
    /\ fetch' = [fetch EXCEPT
                   !.i = fetch.i + 1,
                   !.pc = IF fetch.i + 1 < SentinelCount THEN "put_none" ELSE "done"]
    /\ UNCHANGED <<DOWNLOAD_THREAD_COUNT, REFERENCE_THREAD_COUNT, args,
                   download_queue, dw, rw, main, disk, detail>>

\* ------------------------------------------------------ download workers
paper_folder(arxiv_id) == format_yymm_id(arxiv_id)

\* main.py:48-49  arxiv_id = id_queue.get(); a sentinel leads to line 50
DW_Get(w) ==
    /\ dw[w].pc = "get"
    /\ CanGet(id_queue)
    /\ LET item == Head(id_queue)
       IN  /\ dw' = [dw EXCEPT ![w] = [pc |-> IF item = None THEN "forward" ELSE "work",
                                        arxiv_id |-> item]]
           /\ hist' = [hist EXCEPT !.id_got = @ \cup {<<w, item>>}]
    /\ id_queue' = Tail(id_queue)
    /\ UNCHANGED <<DOWNLOAD_THREAD_COUNT, REFERENCE_THREAD_COUNT, args, fetch,
                   download_queue, rw, main, disk, detail>>

\* main.py:50-52  download_queue.put(None); break
DW_Forward(w) ==
    /\ dw[w].pc = "forward"
    /\ CanPut(download_queue, download_queue_maxsize)
    /\ download_queue' = Append(download_queue, None)
    /\ hist' = [hist EXCEPT !.dl_none = @ + 1]
    /\ dw' = [dw EXCEPT ![w].pc = "done"]
    /\ UNCHANGED <<DOWNLOAD_THREAD_COUNT, REFERENCE_THREAD_COUNT, args, fetch,
                   id_queue, rw, main, disk, detail>>

\* the exception leaves the loop and ends the thread
DW_OnError_Exit == "done"

\* where a download worker goes when processing raises (main.py:75-77)
DW_OnError == "get"

\* main.py:54-71 as one step: the metadata fetches (lines 56-66) either raise,
\* or download() runs and returns normally; download() swallows a failure of
\* save_metadata (downloader.py:133-136).
DW_Process(w) ==
    /\ dw[w].pc = "work"
    /\ \E outcome \in {"raise", "saved", "save_failed"} :
          /\ dw' = [dw EXCEPT ![w].pc = IF outcome = "raise" THEN DW_OnError ELSE "put"]
          /\ disk' = disk \cup
                  (IF outcome = "raise" THEN {}
                   ELSE {<<paper_folder(dw[w].arxiv_id)>>}) \cup
                  (IF outcome = "saved"
                   THEN {<<paper_folder(dw[w].arxiv_id), "metadata.json">>} ELSE {})
    /\ UNCHANGED <<DOWNLOAD_THREAD_COUNT, REFERENCE_THREAD_COUNT, args, fetch,
                   id_queue, download_queue, rw, main, hist, detail>>

\* main.py:72-73  download_queue.put(arxiv_id); time.sleep(delay)
DW_Put(w) ==
    /\ dw[w].pc = "put"
    /\ CanPut(download_queue, download_queue_maxsize)
    /\ download_queue' = Append(download_queue, dw[w].arxiv_id)
    /\ hist' = [hist EXCEPT !.dl_put = @ \cup {<<w, dw[w].arxiv_id>>}]
    /\ dw' = [dw EXCEPT ![w] = [pc |-> "get", arxiv_id |-> None]]
    /\ UNCHANGED <<DOWNLOAD_THREAD_COUNT, REFERENCE_THREAD_COUNT, args, fetch,
                   id_queue, rw, main, disk, detail>>

\* ----------------------------------------------------- reference workers
\* main.py:83-86  arxiv_id = download_queue.get(); a sentinel ends the thread
RW_Get(r) ==
    /\ rw[r].pc = "get"
    /\ CanGet(download_queue)
    /\ LET item == Head(download_queue)
       IN  /\ rw' = [rw EXCEPT ![r] = [pc |-> IF item = None THEN "done" ELSE "work",
                                        arxiv_id |-> item]]
           /\ hist' = [hist EXCEPT !.dl_got = @ \cup {<<r, item>>}]
    /\ download_queue' = Tail(download_queue)
    /\ UNCHANGED <<DOWNLOAD_THREAD_COUNT, REFERENCE_THREAD_COUNT, args, fetch,
                   id_queue, dw, main, disk, detail>>

\* a reference worker whose thread ends when processing raises
RW_OnError_Exit == "done"

\* where a reference worker goes when processing raises (main.py:93-95)
RW_OnError == "get"

\* main.py:87-92 as one step, taken when extract_references_for_paper returns
\* or raises: references.json was written, or it was not (the write failed).
RW_Process(r) ==
    /\ rw[r].pc = "work"
    /\ \E outcome \in {"raise", "written", "not_written"} :
          /\ rw' = [rw EXCEPT ![r] = [pc |-> IF outcome = "raise" THEN RW_OnError ELSE "get",
                                      arxiv_id |-> None]]
          /\ disk' = disk \cup {<<paper_folder(rw[r].arxiv_id)>>} \cup
                  (IF outcome = "written"
                   THEN {<<paper_folder(rw[r].arxiv_id), "references.json">>} ELSE {})
    /\ UNCHANGED <<DOWNLOAD_THREAD_COUNT, REFERENCE_THREAD_COUNT, args, fetch,
                   id_queue, download_queue, dw, main, hist, detail>>

\* --------------------------------------------------------- the coordinator
\* main.py:137  t1.join()
JoinResolver ==
    /\ main.pc = "join_t1"
    /\ fetch.pc = "done"
    /\ main' = [pc |-> "join_download", j |-> 1]
    /\ UNCHANGED <<DOWNLOAD_THREAD_COUNT, REFERENCE_THREAD_COUNT, args, fetch,
                   id_queue, download_queue, dw, rw, disk, hist, detail>>

\* main.py:138-139  for t in download_threads: t.join()
JoinDownload ==
    /\ main.pc = "join_download"
    /\ dw[main.j].pc = "done"
    /\ main' = IF main.j < DOWNLOAD_THREAD_COUNT
               THEN [main EXCEPT !.j = @ + 1]
               ELSE [pc |-> "join_reference", j |-> 1]
    /\ UNCHANGED <<DOWNLOAD_THREAD_COUNT, REFERENCE_THREAD_COUNT, args, fetch,
                   id_queue, download_queue, dw, rw, disk, hist, detail>>

\* main.py:140-141  for t in reference_threads: t.join()
JoinReference ==
    /\ main.pc = "join_reference"
    /\ rw[main.j].pc = "done"
    /\ main' = IF main.j < REFERENCE_THREAD_COUNT
               THEN [main EXCEPT !.j = @ + 1]
               ELSE [pc |-> "done", j |-> 1]
    /\ UNCHANGED <<DOWNLOAD_THREAD_COUNT, REFERENCE_THREAD_COUNT, args, fetch,
                   id_queue, download_queue, dw, rw, disk, hist, detail>>

\* ---------------------------------------------------------- specification
Resolver == get_IDs_network \/ FetchPutId \/ FetchPutNone
DownloadWorker(w) == DW_Get(w) \/ DW_Forward(w) \/ DW_Process(w) \/ DW_Put(w)
ReferenceWorker(r) == RW_Get(r) \/ RW_Process(r)
Coordinator == JoinResolver \/ JoinDownload \/ JoinReference

Next ==
    \/ get_IDs_network
    \/ FetchPutId
    \/ FetchPutNone
    \/ \E w \in DownloadWorkers : DW_Get(w)
    \/ \E w \in DownloadWorkers : DW_Forward(w)
    \/ \E w \in DownloadWorkers : DW_Process(w)
    \/ \E w \in DownloadWorkers : DW_Put(w)
    \/ \E r \in ReferenceWorkers : RW_Get(r)
    \/ \E r \in ReferenceWorkers : RW_Process(r)
    \/ JoinResolver
    \/ JoinDownload
    \/ JoinReference

Spec == Init /\ [][Next]_vars

\* Every thread that can run eventually runs (OS thread scheduling), and every
\* remote call eventually returns or raises.
Fairness ==
    /\ WF_vars(Resolver)
    /\ WF_vars(Coordinator)
    /\ \A w \in 1..MaxDownloadThreads : WF_vars(w \in DownloadWorkers /\ DownloadWorker(w))
    /\ \A r \in 1..MaxReferenceThreads : WF_vars(r \in ReferenceWorkers /\ ReferenceWorker(r))

FairSpec == Spec /\ Fairness

\* the run with as many reference workers as download workers
InitEqual == Init /\ DOWNLOAD_THREAD_COUNT = REFERENCE_THREAD_COUNT

SpecEqual == InitEqual /\ [][Next]_vars /\ Fairness

\* ------------------------------------- one download worker, step by step
\* The statements of download_worker, download_with_retries and
\* downloader.download for the worker held in job.
Str_v == <<"v">>
Str_tar_gz == <<".", "t", "a", "r", ".", "g", "z">>
Str_main_tex == <<"m", "a", "i", "n", ".", "t", "e", "x">>

IsDigit(c) == \E d \in 1..10 : Digits[d] = c
DigitValue(c) == (CHOOSE d \in 1..10 : Digits[d] = c) - 1

RECURSIVE ToInt(_)
\* int(s) for a string of decimal digits
ToInt(s) == IF Len(s) = 0 THEN 0
            ELSE ToInt(SubSeq(s, 1, Len(s) - 1)) * 10 + DigitValue(s[Len(s)])

\* s.split('v')[1] for a string with exactly one 'v'
AfterV(s) == LET k == CHOOSE i \in 1..Len(s) : s[i] = "v"
             IN  SubSeq(s, k + 1, Len(s))

\* arxiv.Result.get_short_id() of the record for one version of a paper
get_short_id(arxiv_id, version) == arxiv_id \o Str_v \o Decimal(version)

\* int(result.get_short_id().split('v')[1])  (main.py:59, metadata_collector.py:11)
VersionOf(result) == ToInt(AfterV(result.short_id))

\* re.match(r"^(\d{4}\.\d{5})", s) succeeds  (downloader.py:85)
MatchesId(s) ==
    /\ Len(s) >= 10
    /\ \A k \in (1..4) \cup (6..10) : IsDigit(s[k])
    /\ s[5] = "."

\* match.group(1)
MatchedId(s) == SubSeq(s, 1, 10)

max_retries == 5
MaxVersion == 3

\* main.py:34  wait_time = min(60 * (2 ** attempt), 600)
\* the backoff without its ceiling of ten minutes
wait_time_Uncapped(attempt) == 60 * (2 ^ attempt)

\* whole seconds that random.uniform(0, 5) can add (main.py:35)
Jitters == {0, 4}

\* main.py:34  min(60 * (2 ** attempt), 600)
wait_time(attempt) == IF 60 * (2 ^ attempt) < 600 THEN 60 * (2 ^ attempt) ELSE 600

\* main.py:75-77: the except branch of download_worker; the loop continues
Skip == [job EXCEPT !.pc = "get"]

\* main.py:48-49
JobGet ==
    /\ job.pc = "get"
    /\ CanGet(id_queue)
    /\ LET item == Head(id_queue)
       IN  job' = IF item = None
                  THEN [IdleJob EXCEPT !.pc = "forward"]
                  ELSE [IdleJob EXCEPT !.pc = "fetch", !.arxiv_id = item]
    /\ id_queue' = Tail(id_queue)
    /\ UNCHANGED <<DOWNLOAD_THREAD_COUNT, REFERENCE_THREAD_COUNT, args, fetch,
                   download_queue, dw, rw, main, disk, hist,
                   ref, calc, probe, res, tar>>

\* main.py:50-52
JobForward ==
    /\ job.pc = "forward"
    /\ CanPut(download_queue, download_queue_maxsize)
    /\ download_queue' = Append(download_queue, None)
    /\ job' = [job EXCEPT !.pc = "done"]
    /\ UNCHANGED <<DOWNLOAD_THREAD_COUNT, REFERENCE_THREAD_COUNT, args, fetch,
                   id_queue, dw, rw, main, disk, hist,
                   ref, calc, probe, res, tar>>

\* the worker's locals after download_with_retries returned record rec for
\* job.target (0: the unversioned query of main.py:56, else line 65)
AfterFetch(rec) ==
    LET latest == IF job.target = 0 THEN VersionOf(rec) ELSE job.version_latest
        list == IF job.target = 0 THEN <<rec>> ELSE Append(job.list_download, rec)
        v == job.target + 1
    IN  [job EXCEPT !.version_latest = latest,
                    !.list_download = list,
                    !.attempt = 0,
                    !.slept = <<>>,
                    !.target = IF v < latest THEN v ELSE job.target,
                    !.pc = IF v < latest THEN "fetch" ELSE "download"]

\* main.py:24-41: one pass of the for-loop of download_with_retries, called
\* from main.py:56 (latest record) or main.py:65 (record of version target)
download_with_retries ==
    /\ job.pc = "fetch"
    /\ \E response \in {"ok", "busy", "error"}, L \in 1..MaxVersion,
          jitter \in Jitters :
          CASE response = "ok" ->
                 job' = AfterFetch([short_id |->
                            get_short_id(job.arxiv_id,
                                         IF job.target = 0 THEN L ELSE job.target)])
            [] response = "busy" ->
                 job' = IF job.attempt + 1 < max_retries
                        THEN [job EXCEPT
                                !.attempt = @ + 1,
                                !.slept = Append(@, wait_time(job.attempt) + jitter)]
                        ELSE [Skip EXCEPT
                                !.attempt = job.attempt + 1,
                                !.slept = Append(@, wait_time(job.attempt) + jitter)]
            [] response = "error" -> job' = Skip
    /\ UNCHANGED <<DOWNLOAD_THREAD_COUNT, REFERENCE_THREAD_COUNT, args, fetch,
                   id_queue, download_queue, dw, rw, main, disk, hist,
                   ref, calc, probe, res, tar>>

\* folder_arxiv of downloader.py:91
folder_arxiv == paper_folder(MatchedId(job.list_download[1].short_id))
\* folder_version and tar_path of downloader.py:100,104
folder_version(result) == <<folder_arxiv, "tex", result.short_id>>
tar_path(result) == <<folder_arxiv, "tex", result.short_id, result.short_id \o Str_tar_gz>>

\* downloader.py:81-96: the head of download(); os.makedirs may raise
download ==
    /\ job.pc = "download"
    /\ IF Len(job.list_download) = 0 \/ ~MatchesId(job.list_download[1].short_id)
       THEN job' = [job EXCEPT !.pc = "put"] /\ disk' = disk
       ELSE \E made \in BOOLEAN :
              IF made
              THEN /\ disk' = disk \cup {<<folder_arxiv>>, <<folder_arxiv, "tex">>}
                   /\ job' = [job EXCEPT !.pc = "bundle", !.idx = 1]
              ELSE job' = Skip /\ disk' = disk
    /\ UNCHANGED <<DOWNLOAD_THREAD_COUNT, REFERENCE_THREAD_COUNT, args, fetch,
                   id_queue, download_queue, dw, rw, main, hist,
                   ref, calc, probe, res, tar>>

\* "continue" / end of the body of the for-loop of downloader.py:98
NextResult == IF job.idx < Len(job.list_download)
              THEN [job EXCEPT !.pc = "bundle", !.idx = @ + 1]
              ELSE [job EXCEPT !.pc = "save"]

\* downloader.py:98-109: the loop takes list_download[idx] and download_url
\* writes the archive ("ok"), gets no 200 response ("refused"), or fails
\* while streaming into the opened file ("broken")
download_url ==
    /\ job.pc = "bundle"
    /\ LET result == job.list_download[job.idx]
           started == [job EXCEPT !.result = result,
                                  !.order = Append(@, VersionOf(result))]
       IN  \E outcome \in {"ok", "refused", "broken"} :
             /\ disk' = disk \cup {folder_version(result)} \cup
                        (IF outcome = "refused" THEN {} ELSE {tar_path(result)})
             /\ job' = IF outcome = "ok"
                        THEN [started EXCEPT !.pc = "validate"]
                        ELSE [NextResult EXCEPT !.result = started.result,
                                                !.order = started.order]
    /\ UNCHANGED <<DOWNLOAD_THREAD_COUNT, REFERENCE_THREAD_COUNT, args, fetch,
                   id_queue, download_queue, dw, rw, main, hist,
                   ref, calc, probe, res, tar>>

\* downloader.py:112-118: an invalid archive is removed (os.remove may fail)
is_tarfile ==
    /\ job.pc = "validate"
    /\ \E valid \in BOOLEAN, removed \in BOOLEAN :
          IF valid
          THEN job' = [job EXCEPT !.pc = "extract"] /\ disk' = disk
          ELSE /\ job' = NextResult
               /\ disk' = IF removed THEN disk \ {tar_path(job.result)} ELSE disk
    /\ UNCHANGED <<DOWNLOAD_THREAD_COUNT, REFERENCE_THREAD_COUNT, args, fetch,
                   id_queue, download_queue, dw, rw, main, hist,
                   ref, calc, probe, res, tar>>

\* downloader.py:120-130: extraction, cleanup of non-source files (which also
\* removes the archive) and the finally-clause os.remove, which may both fail
extract ==
    /\ job.pc = "extract"
    /\ \E extracted \in BOOLEAN, removed \in BOOLEAN :
          disk' = (disk \cup (IF extracted
                              THEN {Append(folder_version(job.result), Str_main_tex)}
                              ELSE {}))
                  \ (IF removed THEN {tar_path(job.result)} ELSE {})
    /\ job' = NextResult
    /\ UNCHANGED <<DOWNLOAD_THREAD_COUNT, REFERENCE_THREAD_COUNT, args, fetch,
                   id_queue, download_queue, dw, rw, main, hist,
                   ref, calc, probe, res, tar>>

\* the record save_metadata is called with (downloader.py:134)
MetadataSource == job.result

\* metadata_collector.create_metadata: the fields that depend on the version
create_metadata(paper) ==
    [latest_version |-> VersionOf(paper),
     pdf_urls |-> IF VersionOf(paper) > 1 THEN VersionOf(paper) ELSE 1]

\* downloader.py:132-136: a failure of save_metadata is printed and swallowed
save_metadata ==
    /\ job.pc = "save"
    /\ \E written \in BOOLEAN :
          IF written
          THEN /\ disk' = disk \cup {<<folder_arxiv, "metadata.json">>}
               /\ job' = [job EXCEPT !.pc = "put",
                                     !.saved = Append(@, [metadata |-> create_metadata(MetadataSource),
                                                          after |-> job.order])]
          ELSE disk' = disk /\ job' = [job EXCEPT !.pc = "put"]
    /\ UNCHANGED <<DOWNLOAD_THREAD_COUNT, REFERENCE_THREAD_COUNT, args, fetch,
                   id_queue, download_queue, dw, rw, main, hist,
                   ref, calc, probe, res, tar>>

\* main.py:70-73
JobPut ==
    /\ job.pc = "put"
    /\ CanPut(download_queue, download_queue_maxsize)
    /\ download_queue' = Append(download_queue, job.arxiv_id)
    /\ job' = [job EXCEPT !.pc = "get"]
    /\ UNCHANGED <<DOWNLOAD_THREAD_COUNT, REFERENCE_THREAD_COUNT, args, fetch,
                   id_queue, dw, rw, main, disk, hist,
                   ref, calc, probe, res, tar>>

\* The resolver has put one identifier and the sentinel of the only download
\* worker; that worker has not yet taken anything.
InitDownload ==
    LET arxiv_id == get_ID(StartMonth, StartYear, 1)
    IN  /\ DOWNLOAD_THREAD_COUNT = 1
        /\ REFERENCE_THREAD_COUNT = 1
        /\ args = [start_month |-> StartMonth, start_year |-> StartYear, start_ID |-> 1,
                   end_month |-> StartMonth, end_year |-> StartYear, end_ID |-> 1,
                   total_paper |-> MaxOrdinal, start_index |-> 0, num_papers |-> 1]
        /\ fetch = [pc |-> "done", y |-> StartYear, m |-> StartMonth, n_start |-> 1,
                    ids |-> <<arxiv_id>>, selected_ids |-> <<arxiv_id>>, i |-> 1]
        /\ id_queue = <<arxiv_id, None>>
        /\ download_queue = <<>>
        /\ dw = [w \in DownloadWorkers |-> [pc |-> "get", arxiv_id |-> None]]
        /\ rw = [r \in ReferenceWorkers |-> [pc |-> "get", arxiv_id |-> None]]
        /\ main = [pc |-> "join_download", j |-> 1]
        /\ disk = {}
        /\ hist = [id_put |-> <<arxiv_id, None>>, id_got |-> {}, dl_put |-> {},
                   dl_none |-> 0, dl_got |-> {}]
        /\ job = IdleJob
        /\ ref = Idle /\ calc = Idle /\ probe = Idle /\ res = Idle /\ tar = Idle

NextDownload ==
    \/ JobGet
    \/ JobForward
    \/ download_with_retries
    \/ download
    \/ download_url
    \/ is_tarfile
    \/ extract
    \/ save_metadata
    \/ JobPut

SpecDownload == InitDownload /\ [][NextDownload]_vars

\* ------------------------------------ one reference worker, step by step
\* The statements of reference_worker, extract_references_for_paper,
\* save_references and get_paper_references for the worker held in ref.
MaxRefs == 2
MaxRequests == 3
ReferenceDelay == 2

\* an arXiv identifier of the old scheme, as externalIds.ArXiv may carry it
OldStyleId == <<"h", "e", "p", "-", "t", "h", "/", "9", "9", "0", "1", "0", "0", "1">>

\* one entry of the "references" list of the bibliographic API: None, or an
\* object whose externalIds.ArXiv is a string (empty when absent)
RawReferences ==
    {[null |-> TRUE, ArXiv |-> <<>>],
     [null |-> FALSE, ArXiv |-> <<>>],
     [null |-> FALSE, ArXiv |-> get_ID(4, 2023, 7856)],
     [null |-> FALSE, ArXiv |-> OldStyleId]}

ReferenceLists == UNION {[1..k -> RawReferences] : k \in 0..MaxRefs}

\* the key convert_to_references_dict stores a reference under
\* (reference_extractor.py:83)
ReferenceKey(arxiv_id) == format_yymm_id(arxiv_id)

\* reference_extractor.py:47-130: the keys of the returned dict; entries that
\* are None or carry no arXiv id are skipped (lines 66-67, 77-78)
convert_to_references_dict(references) ==
    {ReferenceKey(references[k].ArXiv) :
        k \in {i \in 1..Len(references) :
                  ~references[i].null /\ references[i].ArXiv # <<>>}}

\* get_paper_references giving up on a server error as it does on 404
Returns_ServerError(status) == status \in {200, 404, 500}

\* statuses on which get_paper_references returns (reference_extractor.py:30,36);
\* a 200 response carries a JSON body
Returns(status) == status \in {200, 404}

\* main.py:93-95: the except branch of reference_worker; the loop continues
RefRaise ==
    [ref EXCEPT !.pc = "get",
                !.handled = Append(@, [arxiv_id |-> ref.arxiv_id, how |-> "raised"])]

\* main.py:90-92: extract_references_for_paper returned
RefReturn ==
    [ref EXCEPT !.pc = "get",
                !.handled = Append(@, [arxiv_id |-> ref.arxiv_id, how |-> "returned"])]

\* main.py:83-86
RefGet ==
    /\ ref.pc = "get"
    /\ CanGet(download_queue)
    /\ LET item == Head(download_queue)
       IN  ref' = IF item = None
                  THEN [ref EXCEPT !.pc = "done"]
                  ELSE [ref EXCEPT !.pc = "makedirs", !.arxiv_id = item,
                                   !.requests = 0, !.slept = 0, !.status = 0,
                                   !.references = <<>>]
    /\ download_queue' = Tail(download_queue)
    /\ UNCHANGED <<DOWNLOAD_THREAD_COUNT, REFERENCE_THREAD_COUNT, args, fetch,
                   id_queue, dw, rw, main, disk, hist, job, calc, probe, res, tar>>

\* reference_extractor.py:186-189 and 146-147: the paper folder is created
\* when it does not exist; os.makedirs may raise
extract_references_for_paper ==
    /\ ref.pc = "makedirs"
    /\ LET paper == <<paper_folder(ref.arxiv_id)>>
       IN  IF paper \in disk
           THEN ref' = [ref EXCEPT !.pc = "request"] /\ disk' = disk
           ELSE \E made \in BOOLEAN :
                  IF made
                  THEN ref' = [ref EXCEPT !.pc = "request"] /\ disk' = disk \cup {paper}
                  ELSE ref' = RefRaise /\ disk' = disk
    /\ UNCHANGED <<DOWNLOAD_THREAD_COUNT, REFERENCE_THREAD_COUNT, args, fetch,
                   id_queue, download_queue, dw, rw, main, hist, job, calc, probe,
                   res, tar>>

\* reference_extractor.py:27-44: one pass of the while-loop; status 0 stands
\* for a requests.RequestException
get_paper_references ==
    /\ ref.pc = "request"
    /\ \E status \in {200, 404, 429, 500, 0}, body \in ReferenceLists :
          IF Returns(status)
          THEN ref' = [ref EXCEPT !.pc = "save", !.status = status,
                                  !.references = IF status = 200 THEN body ELSE <<>>]
          ELSE /\ ref.requests < MaxRequests
               /\ ref' = [ref EXCEPT !.status = status, !.requests = @ + 1,
                                      !.slept = @ + ReferenceDelay]
    /\ UNCHANGED <<DOWNLOAD_THREAD_COUNT, REFERENCE_THREAD_COUNT, args, fetch,
                   id_queue, download_queue, dw, rw, main, disk, hist, job, calc,
                   probe, res, tar>>

\* references.json after open(json_path, 'w') and json.dump: a failing open
\* leaves the file as it was, a failing dump leaves it truncated
FileAfter(outcome, keys) ==
    CASE outcome = "written" -> [state |-> "written", keys |-> keys]
      [] outcome = "open_failed" -> ref.file
      [] outcome = "dump_failed" -> [state |-> "partial", keys |-> {}]

\* reference_extractor.py:154-171: an empty result is written without a
\* try (a failure raises); otherwise a failure is printed and swallowed
save_references ==
    /\ ref.pc = "save"
    /\ \E outcome \in {"written", "open_failed", "dump_failed"} :
          IF Len(ref.references) = 0
          THEN ref' = [(IF outcome = "written" THEN RefReturn ELSE RefRaise)
                          EXCEPT !.file = FileAfter(outcome, {})]
          ELSE ref' = [RefReturn EXCEPT
                          !.file = FileAfter(outcome,
                                             convert_to_references_dict(ref.references))]
    /\ UNCHANGED <<DOWNLOAD_THREAD_COUNT, REFERENCE_THREAD_COUNT, args, fetch,
                   id_queue, download_queue, dw, rw, main, disk, hist, job, calc,
                   probe, res, tar>>

\* The only download worker has put one identifier and its sentinel and has
\* exited; the only reference worker has not yet taken anything.  The paper
\* folder exists; references.json is absent or left by an earlier run.
InitReference ==
    LET arxiv_id == get_ID(StartMonth, StartYear, 1)
    IN  /\ DOWNLOAD_THREAD_COUNT = 1
        /\ REFERENCE_THREAD_COUNT = 1
        /\ args = [start_month |-> StartMonth, start_year |-> StartYear, start_ID |-> 1,
                   end_month |-> StartMonth, end_year |-> StartYear, end_ID |-> 1,
                   total_paper |-> MaxOrdinal, start_index |-> 0, num_papers |-> 1]
        /\ fetch = [pc |-> "done", y |-> StartYear, m |-> StartMonth, n_start |-> 1,
                    ids |-> <<arxiv_id>>, selected_ids |-> <<arxiv_id>>, i |-> 1]
        /\ id_queue = <<>>
        /\ download_queue = <<arxiv_id, None>>
        /\ dw = [w \in DownloadWorkers |-> [pc |-> "done", arxiv_id |-> None]]
        /\ rw = [r \in ReferenceWorkers |-> [pc |-> "get", arxiv_id |-> None]]
        /\ main = [pc |-> "join_reference", j |-> 1]
        /\ disk = {<<paper_folder(arxiv_id)>>, <<paper_folder(arxiv_id), "tex">>,
                   <<paper_folder(arxiv_id), "metadata.json">>}
        /\ hist = [id_put |-> <<arxiv_id, None>>,
                   id_got |-> {<<1, arxiv_id>>, <<1, None>>},
                   dl_put |-> {<<1, arxiv_id>>}, dl_none |-> 1, dl_got |-> {}]
        /\ job = IdleJob
        /\ \E prior \in {"absent", "prior"} :
              ref = [pc |-> "get", arxiv_id |-> None, requests |-> 0, slept |-> 0,
                     status |-> 0, references |-> <<>>,
                     file |-> [state |-> prior, keys |-> {}], handled |-> <<>>]
        /\ calc = Idle /\ probe = Idle /\ res = Idle /\ tar = Idle

NextReference ==
    \/ RefGet
    \/ extract_references_for_paper
    \/ get_paper_references
    \/ save_references

SpecReference == InitReference /\ [][NextReference]_vars

\* ------------------------------------------------ existence-probe search
\* find_first_id and find_last_id against a fixed existence oracle.  The
\* oracle of one month is a set of ranges <<a, b>> of existing ordinals;
\* id_exists is asked about get_ID(month, year, n), which names ordinal n.
MaxProbe == 6
MaxId == 99999
\* the None returned by find_first_id (arXiv_handler.py:30)
NoneOrdinal == -1

\* arXiv_handler.py:10-21
id_exists(exists, n) == \E r \in exists : r[1] <= n /\ n <= r[2]

RECURSIVE FirstExponential(_, _)
\* arXiv_handler.py:27-30: the probe at which the first while-loop stops
FirstExponential(exists, high) ==
    IF id_exists(exists, high) THEN high
    ELSE IF high * 2 > MaxId THEN NoneOrdinal
         ELSE FirstExponential(exists, high * 2)

RECURSIVE FirstBinary(_, _, _)
\* arXiv_handler.py:33-39
FirstBinary(exists, low, high) ==
    IF low + 1 < high
    THEN LET mid == (low + high) \div 2
         IN  IF id_exists(exists, mid) THEN FirstBinary(exists, low, mid)
             ELSE FirstBinary(exists, mid, high)
    ELSE high

\* arXiv_handler.py:23-39
find_first_id(exists) ==
    LET high == FirstExponential(exists, 1)
    IN  IF high = NoneOrdinal THEN NoneOrdinal ELSE FirstBinary(exists, 1, high)

RECURSIVE LastExponential(_, _)
\* arXiv_handler.py:45-48: the probe at which the first while-loop stops; a
\* value above MaxId stands for the early "return 99999"
LastExponential(exists, high) ==
    IF ~id_exists(exists, high) THEN high
    ELSE IF high * 2 > MaxId THEN high * 2
         ELSE LastExponential(exists, high * 2)

RECURSIVE LastBinary(_, _, _)
\* arXiv_handler.py:51-57
LastBinary(exists, low, high) ==
    IF low + 1 < high
    THEN LET mid == (low + high) \div 2
         IN  IF id_exists(exists, mid) THEN LastBinary(exists, mid, high)
             ELSE LastBinary(exists, low, mid)
    ELSE low

\* arXiv_handler.py:41-57
find_last_id(exists) ==
    LET high == LastExponential(exists, 1)
    IN  IF high > MaxId THEN MaxId ELSE LastBinary(exists, high \div 2, high)

\* ordinals at which the searches change behaviour
ProbePoints == {1, 5, 7, 65536, 70000, MaxId}

\* oracles: any set of single ordinals up to MaxProbe, or one range
ProbeOracles ==
    {{<<n, n>> : n \in S} : S \in SUBSET (1..MaxProbe)} \cup
    {{r} : r \in {p \in ProbePoints \X ProbePoints : p[1] <= p[2]}}

FindIds ==
    /\ probe.pc = "call"
    /\ probe' = [probe EXCEPT !.pc = "returned",
                              !.first = find_first_id(probe.exists),
                              !.last = find_last_id(probe.exists)]
    /\ UNCHANGED <<pipeline, job, ref, calc, res, tar>>

\* the pipeline is not running; only the named function is evaluated
StagesOff ==
    /\ DOWNLOAD_THREAD_COUNT = 1
    /\ REFERENCE_THREAD_COUNT = 1
    /\ id_queue = <<>>
    /\ download_queue = <<>>
    /\ dw = [w \in DownloadWorkers |-> [pc |-> "get", arxiv_id |-> None]]
    /\ rw = [r \in ReferenceWorkers |-> [pc |-> "get", arxiv_id |-> None]]
    /\ main = [pc |-> "join_t1", j |-> 1]
    /\ disk = {}
    /\ hist = [id_put |-> <<>>, id_got |-> {}, dl_put |-> {}, dl_none |-> 0,
               dl_got |-> {}]

PipelineOff ==
    /\ StagesOff
    /\ args = [start_month |-> StartMonth, start_year |-> StartYear, start_ID |-> 1,
               end_month |-> StartMonth, end_year |-> StartYear, end_ID |-> 1,
               total_paper |-> MaxOrdinal, start_index |-> 0, num_papers |-> 0]
    /\ fetch = [pc |-> "loop", y |-> StartYear, m |-> StartMonth, n_start |-> 1,
                ids |-> <<>>, selected_ids |-> <<>>, i |-> 0]

InitProbe ==
    /\ PipelineOff
    /\ job = IdleJob
    /\ ref = Idle /\ calc = Idle /\ res = Idle /\ tar = Idle
    /\ \E exists \in ProbeOracles :
          probe = [pc |-> "call", exists |-> exists, first |-> 0, last |-> 0]

NextProbe == FindIds

SpecProbe == InitProbe /\ [][NextProbe]_vars

\* ------------------------------------------------------- resolver modes
\* get_IDs_network and get_IDs_All called on a range of months that may cross
\* a year end.  fetch holds the locals of the running function; res holds the
\* mode and, for the existence-probe mode, the oracle of every month.
ResolverMonths == {11, 12, 1, 2}
MonthOracles == {{}, {<<1, 2>>}, {<<2, 3>>}, {<<3, 3>>}}

ResolverArgs ==
    {[start_month |-> sm, start_year |-> StartYear, start_ID |-> s,
      end_month |-> e[2], end_year |-> e[1], end_ID |-> n,
      total_paper |-> MaxOrdinal, start_index |-> 0, num_papers |-> 0] :
        sm \in {11, 12}, s \in 1..MaxOrdinal, n \in 1..MaxOrdinal,
        e \in {<<StartYear, 11>>, <<StartYear, 12>>,
               <<StartYear + 1, 1>>, <<StartYear + 1, 2>>}}

\* arXiv_handler.py:70-76
n_end_All == IF AtEnd THEN args.end_ID ELSE find_last_id(res.exists[fetch.m])

\* arXiv_handler.py:63-87, one iteration of the while-loop; comparing the None
\* that find_first_id returned with an int raises TypeError
get_IDs_All ==
    /\ fetch.pc = "loop_all"
    /\ Walked < MaxWalk
    /\ IF fetch.n_start = NoneOrdinal
       THEN fetch' = [fetch EXCEPT !.pc = "raised"]
       ELSE LET ids == IF fetch.n_start <= n_end_All
                       THEN fetch.ids \o get_IDs_month(fetch.m, fetch.y,
                                                       fetch.n_start, n_end_All)
                       ELSE fetch.ids
                m == IF fetch.m + 1 > 12 THEN 1 ELSE fetch.m + 1
            IN  IF AtEnd
                THEN fetch' = [fetch EXCEPT !.ids = ids, !.pc = "returned"]
                ELSE fetch' = [fetch EXCEPT
                                 !.ids = ids, !.m = m,
                                 !.y = IF fetch.m + 1 > 12 THEN fetch.y + 1 ELSE fetch.y,
                                 !.n_start = find_first_id(res.exists[m])]
    /\ UNCHANGED <<DOWNLOAD_THREAD_COUNT, REFERENCE_THREAD_COUNT, args, id_queue,
                   download_queue, dw, rw, main, disk, hist, detail>>

InitResolver ==
    /\ StagesOff
    /\ args \in {a \in ResolverArgs :
                    MonthIndex(a.start_year, a.start_month)
                        <= MonthIndex(a.end_year, a.end_month)}
    /\ \/ /\ res = [pc |-> "network", exists |-> [m \in ResolverMonths |-> {}]]
          /\ fetch = [pc |-> "loop", y |-> args.start_year, m |-> args.start_month,
                      n_start |-> args.start_ID, ids |-> <<>>,
                      selected_ids |-> <<>>, i |-> 0]
       \/ /\ \E exists \in [ResolverMonths -> MonthOracles] :
                res = [pc |-> "all", exists |-> exists]
          /\ fetch = [pc |-> "loop_all", y |-> args.start_year,
                      m |-> args.start_month, n_start |-> args.start_ID,
                      ids |-> <<>>, selected_ids |-> <<>>, i |-> 0]
    /\ job = IdleJob
    /\ ref = Idle /\ calc = Idle /\ probe = Idle /\ tar = Idle

NextResolver == get_IDs_network \/ get_IDs_All

SpecResolver == InitResolver /\ [][NextResolver]_vars

\* ------------------------------------------------------- the month loop
\* fetch_ids_worker with either resolver function, for ranges whose start
\* month is before, at or after the end month, followed by its puts and by
\* the download worker's first get.
LoopArgs ==
    {[start_month |-> sm, start_year |-> StartYear, start_ID |-> 1,
      end_month |-> e[2], end_year |-> e[1], end_ID |-> n,
      total_paper |-> MaxOrdinal, start_index |-> 0, num_papers |-> k] :
        sm \in {11, 12}, n \in 1..MaxOrdinal, k \in 0..1,
        e \in {<<StartYear, 10>>, <<StartYear, 11>>, <<StartYear, 12>>,
               <<StartYear + 1, 1>>}}

\* oracles of a year: every month alike, or one month without identifiers
LoopOracles ==
    {[m \in 1..12 |-> o] : o \in MonthOracles} \cup
    {[m \in 1..12 |-> IF m = e THEN {} ELSE {<<1, 2>>}] : e \in 1..12}

InitLoop ==
    /\ DOWNLOAD_THREAD_COUNT = 1
    /\ REFERENCE_THREAD_COUNT = 1
    /\ id_queue = <<>>
    /\ download_queue = <<>>
    /\ dw = [w \in DownloadWorkers |-> [pc |-> "get", arxiv_id |-> None]]
    /\ rw = [r \in ReferenceWorkers |-> [pc |-> "get", arxiv_id |-> None]]
    /\ main = [pc |-> "join_t1", j |-> 1]
    /\ disk = {}
    /\ hist = [id_put |-> <<>>, id_got |-> {}, dl_put |-> {}, dl_none |-> 0,
               dl_got |-> {}]
    /\ args \in LoopArgs
    /\ \/ /\ res = [pc |-> "network", exists |-> [m \in 1..12 |-> {}]]
          /\ fetch = [pc |-> "loop", y |-> args.start_year, m |-> args.start_month,
                      n_start |-> args.start_ID, ids |-> <<>>,
                      selected_ids |-> <<>>, i |-> 0]
       \/ /\ \E exists \in LoopOracles : res = [pc |-> "all", exists |-> exists]
          /\ fetch = [pc |-> "loop_all", y |-> args.start_year,
                      m |-> args.start_month, n_start |-> args.start_ID,
                      ids |-> <<>>, selected_ids |-> <<>>, i |-> 0]
    /\ job = IdleJob
    /\ ref = Idle /\ calc = Idle /\ probe = Idle /\ tar = Idle

NextLoop ==
    \/ get_IDs_network
    \/ get_IDs_All
    \/ FetchPutId
    \/ FetchPutNone
    \/ \E w \in DownloadWorkers : DW_Get(w)

SpecLoop == InitLoop /\ [][NextLoop]_vars

\* ----------------------------------------------------- storage-key format
\* get_ID followed by format_arxiv_id_for_key, for inputs on both sides of
\* the century the formatter assumes.
KeyYears == {1999, 2000, 2023, 2099, 2100}
KeyOrdinals == {1, 7856, MaxId}

\* re.match(r'^(\d{2})(\d{2})\.(\d{5})$', arxiv_id)
MatchesNewStyle(arxiv_id) ==
    /\ Len(arxiv_id) = 10
    /\ \A k \in (1..4) \cup (6..10) : IsDigit(arxiv_id[k])
    /\ arxiv_id[5] = "."

\* format_arxiv_id_for_key keeping the two-digit year
format_arxiv_id_for_key_ShortYear(arxiv_id) ==
    IF MatchesNewStyle(arxiv_id)
    THEN SubSeq(arxiv_id, 1, 2) \o SubSeq(arxiv_id, 3, 4) \o <<"-">>
             \o SubSeq(arxiv_id, 6, 10)
    ELSE arxiv_id

\* arXiv_handler.py:119-132
format_arxiv_id_for_key(arxiv_id) ==
    IF MatchesNewStyle(arxiv_id)
    THEN <<"2", "0">> \o SubSeq(arxiv_id, 1, 2) \o SubSeq(arxiv_id, 3, 4)
             \o <<"-">> \o SubSeq(arxiv_id, 6, 10)
    ELSE arxiv_id

FormatKey ==
    /\ calc.pc = "call"
    /\ calc' = [calc EXCEPT
                  !.pc = "returned",
                  !.arxiv_id = get_ID(calc.month, calc.year, calc.number),
                  !.key = format_arxiv_id_for_key(
                              get_ID(calc.month, calc.year, calc.number))]
    /\ UNCHANGED <<pipeline, job, ref, probe, res, tar>>

InitFormat ==
    /\ PipelineOff
    /\ job = IdleJob
    /\ ref = Idle /\ probe = Idle /\ res = Idle /\ tar = Idle
    /\ \E month \in 1..12, year \in KeyYears, number \in KeyOrdinals :
          calc = [pc |-> "call", month |-> month, year |-> year,
                  number |-> number, arxiv_id |-> <<>>, key |-> <<>>]

NextFormat == FormatKey

SpecFormat == InitFormat /\ [][NextFormat]_vars

\* ------------------------------------------------------ archive extraction
\* safe_extract_tar on an archive given as the list of its members; each
\* member has a type and a name.  tar.log records what happened to each
\* member, tar.written the names created under the destination directory.
MaxMembers == 2

ascii_letters ==
    {"a", "b", "c", "d", "e", "f", "g", "h", "i", "j", "k", "l", "m", "n", "o", "p", "q", "r", "s", "t", "u", "v", "w", "x", "y", "z"}
    \cup
    {"A", "B", "C", "D", "E", "F", "G", "H", "I", "J", "K", "L", "M", "N", "O", "P", "Q", "R", "S", "T", "U", "V", "W", "X", "Y", "Z"}

\* downloader.py:19
safe_chars == {"-", "_", "."} \cup ascii_letters \cup {Digits[d] : d \in 1..10} \cup {"/"}

\* downloader.py:14-20
sanitize_filename(name) ==
    [k \in 1..Len(name) |-> IF name[k] \in safe_chars THEN name[k] ELSE "_"]

\* ".." in name
HasDotDot(name) == \E k \in 1..(Len(name) - 1) : name[k] = "." /\ name[k + 1] = "."

\* name.startswith("/")
StartsWithSlash(name) == Len(name) > 0 /\ name[1] = "/"

\* downloader.py:29: the members safe_extract_tar passes over
Skipped(member) ==
    \/ member.type \in {"hardlink", "symlink"}
    \/ StartsWithSlash(member.name)
    \/ HasDotDot(member.name)

\* a path component of name is ".."
HasParentSegment(name) ==
    \E k \in 1..(Len(name) - 1) :
        /\ name[k] = "." /\ name[k + 1] = "."
        /\ k = 1 \/ name[k - 1] = "/"
        /\ k + 1 = Len(name) \/ name[k + 2] = "/"

\* os.path.join(extract_to, name) lies outside extract_to
Outside(name) == StartsWithSlash(name) \/ HasParentSegment(name)

\* tarfile's "data" filter refuses the member with a FilterError: special
\* files, links and names that leave the destination
Refused(member) ==
    \/ member.type \in {"fifo", "hardlink", "symlink"}
    \/ Outside(member.name)

MemberNames ==
    {<<"a">>, <<".", ".", "/", "a">>, <<"/", "a">>, <<"a", ".", ".", "b">>,
     <<"a", " ", "b">>}
MemberTypes == {"file", "dir", "symlink", "hardlink", "fifo"}
Members == [type : MemberTypes, name : MemberNames]
Archives == UNION {[1..k -> Members] : k \in 0..MaxMembers}

\* downloader.py:26-41, one pass of the for-loop.  OSError and ExtractError
\* are caught per member (line 39); a FilterError raised by tar.extract is
\* not, and ends the loop in the outer except (line 42)
safe_extract_tar ==
    /\ tar.pc = "member"
    /\ IF tar.i > Len(tar.archive)
       THEN tar' = [tar EXCEPT !.pc = "done"]
       ELSE LET member == tar.archive[tar.i]
                renamed == [member EXCEPT !.name = sanitize_filename(member.name)]
            IN  IF Skipped(member)
                THEN tar' = [tar EXCEPT !.i = @ + 1, !.log = Append(@, "skipped")]
                ELSE \E os_error \in BOOLEAN :
                       IF os_error
                       THEN tar' = [tar EXCEPT !.i = @ + 1,
                                               !.log = Append(@, "os_error")]
                       ELSE IF Refused(renamed)
                       THEN tar' = [tar EXCEPT !.pc = "failed",
                                               !.log = Append(@, "refused")]
                       ELSE tar' = [tar EXCEPT
                                      !.i = @ + 1,
                                      !.log = Append(@, "written"),
                                      !.written = @ \cup {renamed.name}]
    /\ UNCHANGED <<pipeline, job, ref, calc, probe, res>>

InitExtract ==
    /\ PipelineOff
    /\ job = IdleJob
    /\ ref = Idle /\ calc = Idle /\ probe = Idle /\ res = Idle
    /\ \E archive \in Archives :
          tar = [pc |-> "member", archive |-> archive, i |-> 1, log |-> <<>>,
                 written |-> {}]

NextExtract == safe_extract_tar

SpecExtract == InitExtract /\ [][NextExtract]_vars

\* ------------------------------------------------------------ observations
IsId(item) == item # None
QueueIds(q) == {k \in 1..Len(q) : IsId(q[k])}
QueueNones(q) == {k \in 1..Len(q) : q[k] = None}
DownloadDone == {w \in DownloadWorkers : dw[w].pc = "done"}
ReferenceDone == {r \in ReferenceWorkers : rw[r].pc = "done"}

\* C1: for any positive pool sizes the run terminates: the resolver, every
\* download worker and every reference worker exit and the coordinator's
\* joins return.
C1_Terminates == <>(main.pc = "done")

\* C2: when the run ends no sentinel is left in the ID queue or in the
\* result queue.
C2_NoSentinelLeft ==
    main.pc = "done" => QueueNones(id_queue) = {} /\ QueueNones(download_queue) = {}

\* C3: the last reference worker never exits while a completed identifier is
\* still in the result queue or is about to be put there by a download worker.
C3_NoStageAbandoned ==
    ReferenceDone = ReferenceWorkers =>
        /\ QueueIds(download_queue) = {}
        /\ \A w \in DownloadWorkers : dw[w].pc # "put"

\* everything fetch_ids_worker puts over a whole run, in order
AllIdPuts == fetch.selected_ids \o [k \in 1..DOWNLOAD_THREAD_COUNT |-> None]

SentinelCounts ==
    /\ Len(hist.id_put) <= Len(AllIdPuts)
    /\ hist.id_put = SubSeq(AllIdPuts, 1, Len(hist.id_put))
    /\ fetch.pc = "done" => hist.id_put = AllIdPuts
    /\ hist.dl_none = Cardinality(DownloadDone)
    /\ DownloadDone = DownloadWorkers => hist.dl_none = DOWNLOAD_THREAD_COUNT

ExitAfterSentinel ==
    \A w \in DownloadWorkers :
        /\ (dw[w].pc = "forward" /\ dw'[w].pc # "forward") =>
               (dw'[w].pc = "done" /\ hist'.dl_none = hist.dl_none + 1)
        /\ dw[w].pc \in {"forward", "done"} =>
               {x \in hist'.id_got : x[1] = w} = {x \in hist.id_got : x[1] = w}
        /\ dw[w].pc = "done" => dw'[w].pc = "done"

\* C4: the resolver pushes exactly one sentinel per download worker, after
\* every selected identifier; a download worker that takes a sentinel puts
\* exactly one sentinel on the result queue and exits without taking anything
\* more; so the number of sentinels put on the result queue over a run is the
\* number of download workers.
C4_SentinelProtocol == []SentinelCounts /\ [][ExitAfterSentinel]_vars

C4_Witness ==
    /\ DOWNLOAD_THREAD_COUNT = 2
    /\ DownloadDone = DownloadWorkers
    /\ hist.dl_none = 2
    /\ Len(fetch.selected_ids) > 0

\* C8: a worker exits only on taking a sentinel; a failure while processing
\* an identifier sends the worker back to take the next queue item.
C8_FailSafe ==
    [][ /\ \A w \in DownloadWorkers :
             /\ (dw[w].pc # "done" /\ dw'[w].pc = "done") =>
                    (dw[w].pc = "forward" /\ <<w, None>> \in hist.id_got)
             /\ dw[w].pc = "work" => dw'[w].pc \in {"work", "put", "get"}
        /\ \A r \in ReferenceWorkers :
             /\ (rw[r].pc # "done" /\ rw'[r].pc = "done") =>
                    (rw[r].pc = "get" /\ Head(download_queue) = None)
             /\ rw[r].pc = "work" => rw'[r].pc \in {"work", "get"} ]_vars

\* a download worker skipped an identifier and is working on the next one
C8_Witness ==
    \E w \in DownloadWorkers : \E x \in hist.id_got :
        /\ x[1] = w /\ IsId(x[2])
        /\ x \notin hist.dl_put
        /\ dw[w].pc = "work" /\ dw[w].arxiv_id # x[2]

\* C9: the ID queue never holds more than 2*N items and the result queue never
\* more than 2*M; a producer facing a full queue is blocked, and nothing put
\* is dropped (every item put is still queued or was taken).
C9_Backpressure ==
    /\ Len(id_queue) <= 2 * DOWNLOAD_THREAD_COUNT
    /\ Len(download_queue) <= 2 * REFERENCE_THREAD_COUNT
    /\ Len(id_queue) = 2 * DOWNLOAD_THREAD_COUNT => ~ENABLED (FetchPutId \/ FetchPutNone)
    /\ Len(download_queue) = 2 * REFERENCE_THREAD_COUNT =>
           \A w \in DownloadWorkers : ~ENABLED (DW_Put(w) \/ DW_Forward(w))
    /\ id_queue = SubSeq(hist.id_put, Len(hist.id_put) - Len(id_queue) + 1, Len(hist.id_put))
    /\ Len(hist.id_put) = Cardinality(hist.id_got) + Len(id_queue)
    /\ Cardinality(hist.dl_put) + hist.dl_none = Cardinality(hist.dl_got) + Len(download_queue)

\* the result queue is full while a download worker waits to put
C9_Witness ==
    /\ Len(download_queue) = 2 * REFERENCE_THREAD_COUNT
    /\ \E w \in DownloadWorkers : dw[w].pc \in {"put", "forward"}
    /\ \E w \in DownloadWorkers : dw[w].pc = "put"

\* workers that are inside a paper's directory, with the directory
Busy ==
    {<<"download", w, paper_folder(dw[w].arxiv_id)>> :
        w \in {v \in DownloadWorkers : dw[v].pc = "work"}} \cup
    {<<"reference", r, paper_folder(rw[r].arxiv_id)>> :
        r \in {v \in ReferenceWorkers : rw[v].pc = "work"}}

C5_EmitOnlyIfSaved ==
    \A k \in QueueIds(download_queue) :
        <<paper_folder(download_queue[k]), "metadata.json">> \in disk

\* C6: the metadata of a paper whose latest revision is L is written once,
\* from the record of revision L (latest_version = L, L pdf_urls), after the
\* revisions 1..L were all processed.
C6_MetadataFromLatest ==
    /\ Len(job.saved) <= 1
    /\ \A k \in 1..Len(job.saved) :
          /\ job.saved[k].metadata.latest_version = job.version_latest
          /\ job.saved[k].metadata.pdf_urls = job.version_latest
          /\ {job.saved[k].after[n] : n \in 1..Len(job.saved[k].after)} = 1..job.version_latest

\* C7: one worker processes the revisions of a paper in ascending version
\* order 1, 2, ..., latest_version.
C7_AscendingRevisions ==
    \A k \in 1..Len(job.order) : job.order[k] = k

\* C11: once a reference worker has finished with an identifier, however it
\* ended, the paper's references file exists and holds a mapping written by
\* this run (possibly empty), never the file's prior content.
C11_ReferencesFileAlways ==
    Len(ref.handled) > 0 => ref.file.state = "written"

\* C13: when some ordinal exists in the month, find_first_id returns an
\* ordinal not above the one find_last_id returns; when none exists, both
\* return their empty result (None, and an empty range end 0).
C13_FirstNotAfterLast ==
    probe.pc = "returned" =>
        IF probe.exists # {}
        THEN probe.first # NoneOrdinal /\ probe.first <= probe.last
        ELSE probe.first = NoneOrdinal /\ probe.last = 0

\* C20: for a month whose existing ordinals are exactly one range a..b,
\* find_first_id returns a and find_last_id returns b.
C20_ExactBoundaries ==
    probe.pc = "returned" =>
        \A r \in probe.exists :
            probe.exists = {r} => probe.first = r[1] /\ probe.last = r[2]

\* (year, month, ordinal) of an identifier YYMM.NNNNN of this century
YearOf(id) == 2000 + ToInt(SubSeq(id, 1, 2))
MonthOf(id) == ToInt(SubSeq(id, 3, 4))
OrdinalOf(id) == ToInt(SubSeq(id, 6, Len(id)))
IdBefore(a, b) ==
    \/ MonthIndex(YearOf(a), MonthOf(a)) < MonthIndex(YearOf(b), MonthOf(b))
    \/ /\ MonthIndex(YearOf(a), MonthOf(a)) = MonthIndex(YearOf(b), MonthOf(b))
       /\ OrdinalOf(a) < OrdinalOf(b)

\* the resolver function has ended, by returning or by raising
Resolved == fetch.pc \in {"put_ids", "put_none", "returned", "raised"}

\* C12: for a range whose start month is not after its end month, either
\* resolver mode returns identifiers strictly increasing in (year, month,
\* ordinal), has walked to the end month, keeps within the range of months,
\* and takes no ordinal below start_ID in the first month nor above end_ID in
\* the last.
C12_OrderedRange ==
    (res.pc \in {"network", "all"} /\ Resolved) =>
        /\ fetch.pc # "raised"
        /\ AtEnd
        /\ \A i, j \in 1..Len(fetch.ids) :
              i < j => IdBefore(fetch.ids[i], fetch.ids[j])
        /\ \A i \in 1..Len(fetch.ids) :
              LET id == fetch.ids[i]
                  at == MonthIndex(YearOf(id), MonthOf(id))
              IN  /\ MonthIndex(args.start_year, args.start_month) <= at
                  /\ at <= MonthIndex(args.end_year, args.end_month)
                  /\ at = MonthIndex(args.start_year, args.start_month)
                        => OrdinalOf(id) >= args.start_ID
                  /\ at = MonthIndex(args.end_year, args.end_month)
                        => OrdinalOf(id) <= args.end_ID

\* the month about to be handled has its end ordinal below its start ordinal,
\* or no identifier at all
EmptyMonth ==
    \/ fetch.pc = "loop" /\ res.pc = "network" /\ fetch.n_start > n_end
    \/ /\ fetch.pc = "loop_all"
       /\ \/ fetch.n_start = NoneOrdinal
          \/ fetch.n_start > n_end_All
          \/ ~AtEnd /\ res.exists[fetch.m] = {}

\* C19: in both modes a month whose end ordinal is below its start ordinal,
\* or in which nothing exists, adds no identifier and raises nothing; the
\* resolver keeps what the other months gave and goes on.
C19_EmptyMonthSkipped ==
    [][EmptyMonth => fetch'.pc # "raised" /\ fetch'.ids = fetch.ids]_vars

\* f"{y:04d}{m:02d}-{n:05d}"
StorageKey(year, month, number) ==
    ZeroPad(year, 4) \o ZeroPad(month, 2) \o <<"-">> \o ZeroPad(number, 5)

\* C14 as stated: for every month, year and ordinal the key of get_ID(m, y, n)
\* is y in 4 digits, m in 2 digits, a hyphen and n in 5 digits.
C14_RoundTripAnyYear ==
    calc.pc = "returned" =>
        calc.key = StorageKey(calc.year, calc.month, calc.number)

\* C14 amended: the round trip holds for every year of 2000..2099.
C14_RoundTrip ==
    (calc.pc = "returned" /\ calc.year \in 2000..2099) =>
        calc.key = StorageKey(calc.year, calc.month, calc.number)

\* get_ID(4, 2023, 7856) = "2304.07856" has been mapped to "202304-07856"
C14_Witness ==
    /\ calc.pc = "returned"
    /\ calc.month = 4 /\ calc.year = 2023 /\ calc.number = 7856
    /\ calc.arxiv_id = <<"2", "3", "0", "4", ".", "0", "7", "8", "5", "6">>
    /\ calc.key = <<"2", "0", "2", "3", "0", "4", "-", "0", "7", "8", "5", "6">>

IsStorageKey(s) ==
    /\ Len(s) = 12
    /\ \A k \in (1..6) \cup (8..12) : IsDigit(s[k])
    /\ s[7] = "-"

\* C15: every paper directory on disk and every key of a references mapping
\* written has the form YYYYMM-NNNNN.
C15_StorageKeyFormat ==
    /\ \A path \in disk : IsStorageKey(path[1])
    /\ ref.pc # "idle" => \A key \in ref.file.keys : IsStorageKey(key)

\* min(60 * 2^k, 600) for k = 0..4, written out
Backoff == <<60, 120, 240, 480, 600>>

\* C17: one call of download_with_retries makes at most 5 attempts; the
\* k-th throttled attempt (k = 0..4) is followed by a sleep of
\* min(60 * 2^k, 600) seconds plus a jitter in [0, 5); the call fails either
\* at once on another error, with no sleep added, or after the 5th throttled
\* attempt; in both cases the worker forwards nothing for the paper and goes
\* back to take the next item.
C17_BoundedRetry ==
    /\ [](/\ job.attempt <= 5
          /\ job.pc = "fetch" => job.attempt < 5
          /\ Len(job.slept) = job.attempt
          /\ \A k \in 1..Len(job.slept) :
                job.slept[k] - Backoff[k] \in 0..4)
    /\ [][(job.pc = "fetch" /\ job'.pc # "fetch") =>
             \/ job'.pc = "download" /\ job'.attempt = 0
             \/ /\ job'.pc = "get"
                /\ download_queue' = download_queue
                /\ disk' = disk
                /\ \/ job'.attempt = job.attempt /\ job'.slept = job.slept
                   \/ job.attempt = 4 /\ job'.attempt = 5]_vars

\* the call failed after five throttled attempts and the paper was skipped
C17_Witness ==
    /\ job.pc = "get"
    /\ job.attempt = 5
    /\ Len(job.slept) = 5
    /\ job.slept[5] >= 600
    /\ download_queue = <<>>

\* the members the claim says are passed over: links, absolute paths and
\* names with a parent-directory segment
Rejected(member) ==
    \/ member.type \in {"hardlink", "symlink"}
    \/ StartsWithSlash(member.name)
    \/ HasParentSegment(member.name)

\* C16: for any archive, nothing is written outside the destination; a link,
\* an absolute path or a name with a parent-directory segment is passed over
\* alone; every other member is written under its sanitized name (unless the
\* file system fails on it), and the members after it are still handled.
C16_ExtractionSafety ==
    tar.pc # "idle" =>
        /\ \A name \in tar.written :
              ~Outside(name) /\ \A k \in 1..Len(name) : name[k] \in safe_chars
        /\ tar.pc # "failed"
        /\ \A k \in 1..Len(tar.log) :
              IF Rejected(tar.archive[k])
              THEN tar.log[k] = "skipped"
              ELSE /\ tar.log[k] \in {"written", "os_error"}
                   /\ tar.log[k] = "written" =>
                         sanitize_filename(tar.archive[k].name) \in tar.written

\* positions of list_download whose pass of the for-loop of download() is over
RevisionsDone ==
    IF job.pc = "save" THEN 1..Len(job.list_download)
    ELSE IF job.pc \in {"bundle", "validate", "extract"} THEN 1..(job.idx - 1)
    ELSE {}

\* C21: once download() has moved on from a revision, to the next revision or
\* to saving the metadata, that revision's directory holds no archive file,
\* whatever happened to the download, the validation and the extraction.
C21_ArchiveRemoved ==
    \A k \in RevisionsDone : tar_path(job.list_download[k]) \notin disk

\* a path of disk that names a directory: the paper directory, its tex
\* directory or a revision directory
IsDirectory(path) == Len(path) = 1 \/ (path[2] = "tex" /\ Len(path) <= 3)

\* the step is a call of download_url that returned True
BundleFetched == job.pc = "bundle" /\ job'.pc = "validate"

\* C22: a paper directory, and any directory below it, comes into existence
\* only in a step in which the fetch of a revision's source bundle succeeds;
\* a paper whose bundle fetches all fail gets no directory.
C22_DirectoryOnFirstFetch ==
    [][\A path \in disk' \ disk : IsDirectory(path) => BundleFetched]_vars

\* identifiers put on, and taken from, the result queue so far
ResultPut == {x[2] : x \in hist.dl_put}
ResultGot == {x[2] : x \in {y \in hist.dl_got : IsId(y[2])}}

\* the run is over with nothing left behind
CleanEnd ==
    /\ main.pc = "done"
    /\ id_queue = <<>> /\ download_queue = <<>>
    /\ DownloadDone = DownloadWorkers /\ ReferenceDone = ReferenceWorkers
    /\ Cardinality({x \in hist.dl_got : x[2] = None}) = hist.dl_none
    /\ ResultPut = ResultGot

EndAhead ==
    MonthIndex(args.start_year, args.start_month)
        <= MonthIndex(args.end_year, args.end_month)

\* the resolver function is still inside its month loop
InLoop == fetch.pc \in {"loop", "loop_all"}

\* C24: the month loop ends only by returning at the end month, having
\* stepped one month at a time; with the end month ahead it never fails and
\* sentinels are pushed only after it returned; with the start month after
\* the end month it stays in the loop for ever, nothing is put on the ID
\* queue and the download workers stay blocked in get.
C24_MonthLoop ==
    /\ [](/\ fetch.pc # "raised"
          /\ ~InLoop => EndAhead /\ AtEnd
          /\ ~EndAhead =>
                /\ InLoop
                /\ hist.id_put = <<>> /\ id_queue = <<>>
                /\ \A w \in DownloadWorkers : dw[w].pc = "get")
    /\ [][(InLoop /\ fetch' # fetch) =>
             IF AtEnd THEN ~InLoop'
             ELSE /\ InLoop'
                  /\ MonthIndex(fetch'.y, fetch'.m) = MonthIndex(fetch.y, fetch.m) + 1
                  /\ fetch'.m \in 1..12]_vars

====
